---- MODULE Spec2Model ----
(***************************************************************************)
(* Stapler: the server-side conversion endpoint (POST /api/convert) and    *)
(* its text-to-PDF layout pass, convertTextToPdf.                          *)
(*                                                                         *)
(* Strings are sequences of one-character strings.  Vertical positions are *)
(* in points; font sizes are in tenths of a point (12 * 1.2 = 14.4 is 144).*)
(***************************************************************************)
EXTENDS Integers, Sequences, FiniteSets, TLC

(***************************************************************************)
(* Bounds of the model.                                                    *)
(***************************************************************************)
\* longest text enumerated character by character
MaxLen == 4
\* most lines of the first paragraph of a generated long text
MaxLines == 42
\* most lines of the second paragraph of a generated long text
MaxTail == 2
\* most words of a generated one-paragraph text of mixed word widths
MaxWords == 3
\* most files in the list of uploaded PDFs
MaxFiles == 2
\* most exports begun that did not fail
MaxExports == 2

(***************************************************************************)
(* Program constants.                                                      *)
(***************************************************************************)
MAX_FILE_SIZE == 10 * 1024 * 1024
PageWidth == 612
PageHeight == 792
fontSize == 12
smallFontSize == 10
titleFontSize == 18
margin == 50
lineHeight == (fontSize * 3) \div 2
maxWidth == PageWidth - margin * 2
\* font sizes in tenths of a point
BodySize == fontSize * 10
HeadingSize == fontSize * 12
TitleSize == titleFontSize * 10
FooterSize == smallFontSize * 10

(***************************************************************************)
(* Characters and strings.                                                 *)
(***************************************************************************)
Whitespace == {" ", "\n", "\t", "\r"}
IsWS(c) == c \in Whitespace
LowerLetters ==
  <<"a", "b", "c", "d", "e", "f", "g", "h", "i", "j", "k", "l", "m", "n", "o",
    "p", "q", "r", "s", "t", "u", "v", "w", "x", "y", "z">>
UpperLetters ==
  <<"A", "B", "C", "D", "E", "F", "G", "H", "I", "J", "K", "L", "M", "N", "O",
    "P", "Q", "R", "S", "T", "U", "V", "W", "X", "Y", "Z">>
Range(f) == {f[k] : k \in DOMAIN f}
\* \w of the regular expressions
WordChars ==
  Range(LowerLetters) \cup Range(UpperLetters)
    \cup {"0", "1", "2", "3", "4", "5", "6", "7", "8", "9", "_"}

Min(S) == CHOOSE x \in S : \A z \in S : x <= z
Max(S) == CHOOSE x \in S : \A z \in S : x >= z

\* String.prototype.trim
trim(s) ==
  IF \A k \in 1..Len(s) : IsWS(s[k]) THEN <<>>
  ELSE LET a == CHOOSE k \in 1..Len(s) :
                  ~IsWS(s[k]) /\ \A j \in 1..(k - 1) : IsWS(s[j])
           b == CHOOSE k \in 1..Len(s) :
                  ~IsWS(s[k]) /\ \A j \in (k + 1)..Len(s) : IsWS(s[j])
       IN SubSeq(s, a, b)

\* String.prototype.endsWith, for a one-character suffix
endsWith(s, c) == Len(s) > 0 /\ s[Len(s)] = c
\* String.prototype.includes, for a one-character needle
includes(s, c) == \E k \in 1..Len(s) : s[k] = c
UpperChar(c) ==
  IF c \in Range(LowerLetters)
  THEN UpperLetters[CHOOSE k \in DOMAIN LowerLetters : LowerLetters[k] = c]
  ELSE c
LowerChar(c) ==
  IF c \in Range(UpperLetters)
  THEN LowerLetters[CHOOSE k \in DOMAIN UpperLetters : UpperLetters[k] = c]
  ELSE c
toUpperCase(s) == [k \in 1..Len(s) |-> UpperChar(s[k])]
toLowerCase(s) == [k \in 1..Len(s) |-> LowerChar(s[k])]

\* the regular expression /\n\s*\n/ tried at position q of s: a newline, then
\* whitespace, then a newline
MatchAt(s, q) ==
  /\ s[q] = "\n"
  /\ \E j \in (q + 1)..Len(s) :
       s[j] = "\n" /\ \A k \in (q + 1)..(j - 1) : IsWS(s[k])
\* \s* is greedy: the match from q ends at the last newline it can reach
MatchEnd(s, q) ==
  Max({j \in (q + 1)..Len(s) :
         s[j] = "\n" /\ \A k \in (q + 1)..(j - 1) : IsWS(s[k])})

\* s.split(/\n\s*\n/) from position p on: the leftmost match at or after p
\* closes a piece, the scan goes on behind the match
RECURSIVE SplitFrom(_, _)
SplitFrom(s, p) ==
  LET ms == {q \in p..Len(s) : MatchAt(s, q)}
  IN IF ms = {} THEN << SubSeq(s, p, Len(s)) >>
     ELSE << SubSeq(s, p, Min(ms) - 1) >> \o SplitFrom(s, MatchEnd(s, Min(ms)) + 1)
SplitParagraphs(s) == SplitFrom(s, 1)

\* s.split(/\s+/): the runs between whitespace runs, with an empty string in
\* front when s starts with whitespace and one behind when it ends with it
RunStarts(s) == {k \in 1..Len(s) : ~IsWS(s[k]) /\ (k = 1 \/ IsWS(s[k - 1]))}
RunEnd(s, a) ==
  CHOOSE b \in a..Len(s) :
    (b = Len(s) \/ IsWS(s[b + 1])) /\ \A k \in a..b : ~IsWS(s[k])
RECURSIVE RunsOf(_, _)
RunsOf(s, starts) ==
  IF starts = {} THEN <<>>
  ELSE LET a == Min(starts)
       IN << SubSeq(s, a, RunEnd(s, a)) >> \o RunsOf(s, starts \ {a})
SplitWS(s) ==
  IF Len(s) = 0 THEN << <<>> >>
  ELSE (IF IsWS(s[1]) THEN << <<>> >> ELSE <<>>)
       \o RunsOf(s, RunStarts(s))
       \o (IF IsWS(s[Len(s)]) THEN << <<>> >> ELSE <<>>)

\* s.split(sep) for a one-character separator, last piece only (.pop())
LastPiece(s, seps) ==
  LET ks == {k \in 1..Len(s) : s[k] \in seps}
  IN IF ks = {} THEN s ELSE SubSeq(s, Max(ks) + 1, Len(s))

\* s.replace(/\.\w+$/, ''): a dot followed by word characters up to the end
StripExtension(s) ==
  LET ks == {k \in 1..(Len(s) - 1) :
               s[k] = "." /\ \A j \in (k + 1)..Len(s) : s[j] \in WordChars}
  IN IF ks = {} THEN s ELSE SubSeq(s, 1, Min(ks) - 1)

\* decimal digits of a natural number, as template literals print it
RECURSIVE Digits(_)
Digits(n) ==
  LET d == <<"0", "1", "2", "3", "4", "5", "6", "7", "8", "9">>
  IN IF n < 10 THEN << d[n + 1] >> ELSE Digits(n \div 10) \o << d[(n % 10) + 1] >>

(***************************************************************************)
(* Fonts: pdf-lib's standard Helvetica faces, glyph widths in 1/1000 em.   *)
(***************************************************************************)
Glyphs == {"a", "W", ".", ":", " "}
GlyphWidth(c, font) ==
  CASE c = "W" -> 944
    [] c = "a" -> 556
    [] c = ":" -> IF font = "boldFont" THEN 333 ELSE 278
    [] OTHER -> 278
RECURSIVE SumWidths(_, _, _)
SumWidths(text, font, glyphs) ==
  IF glyphs = {} THEN 0
  ELSE LET c == CHOOSE g \in glyphs : TRUE
       IN Cardinality({k \in 1..Len(text) : text[k] = c}) * GlyphWidth(c, font)
          + SumWidths(text, font, glyphs \ {c})
\* font.widthOfTextAtSize(text, size), in 1/10000 point (size is in tenths)
widthOfTextAtSize(text, font, size) == SumWidths(text, font, Glyphs) * size

(***************************************************************************)
(* The paragraph steps of convertTextToPdf.                                *)
(***************************************************************************)
\* the heading test
HeadingTest(paragraph) ==
  /\ Len(trim(paragraph)) < 80
  /\ \/ endsWith(paragraph, ":")
     \/ ~includes(paragraph, ".")
     \/ toUpperCase(paragraph) = paragraph
FontOf(heading) == IF heading THEN "boldFont" ELSE "regularFont"
SizeOf(heading) == IF heading THEN HeadingSize ELSE BodySize

\* Fits with the width test dropped
FitsAlways(testLine, font, size) == TRUE
\* Fits with the margin taken off the usable width once more on each side
FitsNarrow(testLine, font, size) ==
  widthOfTextAtSize(testLine, font, size) <= (maxWidth - 2 * margin) * 10000
\* the test of the word-wrap loop
Fits(testLine, font, size) ==
  widthOfTextAtSize(testLine, font, size) <= maxWidth * 10000

\* the word-wrap loop from word k on
RECURSIVE WrapFrom(_, _, _, _, _, _)
WrapFrom(words, k, done, currentLine, font, size) ==
  IF k > Len(words) THEN [lines |-> done, currentLine |-> currentLine]
  ELSE LET word == words[k]
           testLine == IF currentLine # <<>>
                       THEN currentLine \o <<" ">> \o word ELSE word
       IN IF Fits(testLine, font, size)
          THEN WrapFrom(words, k + 1, done, testLine, font, size)
          ELSE WrapFrom(words, k + 1, Append(done, currentLine), word, font, size)
\* WrapLines without the push of the line left over after the loop
WrapLinesNoLeftover(paragraph, font, size) ==
  WrapFrom(SplitWS(paragraph), 1, <<>>, <<>>, font, size).lines
\* the lines of a paragraph: the loop, then the line left over
WrapLines(paragraph, font, size) ==
  LET r == WrapFrom(SplitWS(paragraph), 1, <<>>, <<>>, font, size)
  IN IF r.currentLine # <<>> THEN Append(r.lines, r.currentLine) ELSE r.lines

\* NeedsNewPage looking at the first line only
NeedsNewPagePerLine(yy, n) == yy < margin
\* the test before a paragraph's lines are drawn
NeedsNewPage(yy, n) == yy - n * lineHeight < margin
\* OutOfSpace with the test dropped
OutOfSpaceNever(yy) == FALSE
\* the test after each drawn line
OutOfSpace(yy) == yy < margin
\* the cursor at the top of an added page
TopOfPage == PageHeight - margin - fontSize

TextRun(text, yy, size, font, color) ==
  [text |-> text, x |-> margin, y |-> yy, size |-> size, font |-> font,
   color |-> color]
\* FooterText with the page index printed as it is
FooterTextZeroBased(index, count) ==
  <<"P", "a", "g", "e", " ">> \o Digits(index)
    \o <<" ", "o", "f", " ">> \o Digits(count)
FooterText(index, count) ==
  <<"P", "a", "g", "e", " ">> \o Digits(index + 1)
    \o <<" ", "o", "f", " ">> \o Digits(count)

(***************************************************************************)
(* Uploads the model draws its requests from.                              *)
(***************************************************************************)
Alphabet == {"a", "W", ".", ":", " ", "\n"}
SmallTexts == UNION {[1..n -> Alphabet] : n \in 0..MaxLen}

Rep(c, n) == [k \in 1..n |-> c]
\* 14 W are 159 points wide at 12 points (three share a line), 23 W are 261
\* (two never share a line), 46 W are 521 (wider than the usable 512)
ShortWord == Rep("W", 14)
WideWord == Rep("W", 23)
OverlongWord == Rep("W", 46)
RECURSIVE JoinWords(_)
JoinWords(ws) ==
  IF Len(ws) = 0 THEN <<>>
  ELSE IF Len(ws) = 1 THEN ws[1]
  ELSE ws[1] \o <<" ">> \o JoinWords(Tail(ws))
\* a paragraph that wraps to n lines of one wide word each
TallParagraph(n) == JoinWords([k \in 1..n |-> WideWord])
\* one or two tall paragraphs, a blank line between them
LongTexts ==
  {TallParagraph(n) : n \in 1..MaxLines}
    \cup {TallParagraph(n) \o <<"\n", "\n">> \o TallParagraph(m) :
            n \in 1..MaxLines, m \in 1..MaxTail}
\* one paragraph of words of mixed widths
MixedTexts ==
  {JoinWords(ws) :
     ws \in UNION {[1..n -> {ShortWord, WideWord, OverlongWord}] : n \in 1..MaxWords}}
\* a short text behind which whitespace pads the paragraph to 80 characters
PaddedTexts == {<<"a">> \o Rep(" ", 79), <<"a", ".", ":">> \o Rep(" ", 77)}
Texts == SmallTexts \cup LongTexts \cup MixedTexts \cup PaddedTexts

NoFile == [name |-> <<>>, size |-> -1, content |-> <<>>]
TxtName == <<"r", "e", "p", "o", "r", "t", ".", "t", "x", "t">>
PngName == <<"a", ".", "p", "n", "g">>
DocxName == <<"a", ".", "d", "o", "c", "x">>
PdfName == <<"a", ".", "p", "d", "f">>
Upload(name, size, text) == [name |-> name, size |-> size, content |-> text]
Uploads ==
  {Upload(TxtName, Len(t), t) : t \in Texts}
    \cup {Upload(n, 1, <<"a">>) : n \in {PngName, DocxName, PdfName}}
    \cup {Upload(TxtName, MAX_FILE_SIZE + 1, <<>>), NoFile}
\* the values uuidv4() returns in the model
Uuids == {<<"u", "1">>, <<"u", "2">>}

(***************************************************************************)
(* State.                                                                  *)
(***************************************************************************)
VARIABLES
  pc,           \* position of the request in POST and convertTextToPdf
  upload,       \* the form's file
  response,     \* the status and fileId POST answers with
  fileId,       \* uuidv4()
  files,        \* the temp directory: path -> content
  textContent,  \* the text read from textPath
  paragraphs,   \* textContent.split(/\n\s*\n/)
  pi,           \* index of the paragraph the loop is at
  pages,        \* pdfDoc: per page the text runs drawn on it
  currentPage,  \* index in pages of the page being drawn on
  y,            \* vertical cursor
  isHeading,    \* heading test of the current paragraph
  lines,        \* wrapped lines of the current paragraph
  li,           \* index of the line the draw loop is at
  pageCount,    \* pdfDoc.getPageCount() as read before the footer loop
  i,            \* index of the footer loop
  parked,       \* the request that waits at an await while this one runs
  content,        \* PDFExporter: the content prop
  uploadedFiles,  \* PDFExporter: the uploadedFiles prop
  fileName,       \* PDFExporter: the fileName state
  isExporting,    \* PDFExporter: the isExporting state
  exportError,    \* PDFExporter: the exportError state
  exportStatus,   \* PDFExporter: the exportStatus state
  saving,         \* the opt of every html2pdf().save() not yet settled
  timers,         \* the setTimeout callbacks not yet run
  downloads,      \* the files the browser was made to download
  file,                \* ConvertToPDF: the file state
  isConverting,        \* ConvertToPDF: the isConverting state
  error,               \* ConvertToPDF: the error state
  conversionStatus,    \* ConvertToPDF: the conversionStatus state
  outputFileName,      \* ConvertToPDF: the outputFileName state
  conversionProgress,  \* ConvertToPDF: the conversionProgress state
  running,             \* the call of handleConvert that has not finished
  resetTimers,         \* ConvertToPDF: the setTimeout callbacks not yet run
  pdfFiles,           \* CombinePDF: the files state
  isCombining,        \* CombinePDF: the isCombining state
  combineError,       \* CombinePDF: the error state
  combinationStatus,  \* CombinePDF: the combinationStatus state
  combining,          \* the files of the call of handleCombine that waits
  merges,             \* the calls of mockCombinePDFs that have not settled
  combineTimers,      \* CombinePDF: the status timers not yet run
  mergedDownloads,    \* the merged files the browser was made to download
  selectedTemplate,  \* DocumentWorkspace: the selectedTemplate state
  isFormatting,      \* useAiFormatter: the isFormatting state
  aiError,           \* useAiFormatter: the error state
  formatting,        \* the call of formatWithAi that waits for the AI route
  zoneError,         \* FileUploadZone: the error state
  download  \* the fileId parameter and the answer of the last GET

\* the state of one request to POST /api/convert
requestVars ==
  << pc, upload, response, fileId, textContent, paragraphs, pi, pages,
     currentPage, y, isHeading, lines, li, pageCount, i >>
\* the state of the PDFExporter component
exportVars ==
  << content, uploadedFiles, fileName, isExporting, exportError, exportStatus,
     saving, timers, downloads >>
\* the state of the ConvertToPDF component
convertVars ==
  << file, isConverting, error, conversionStatus, outputFileName,
     conversionProgress, running, resetTimers >>
\* the state of the CombinePDF component
combineVars ==
  << pdfFiles, isCombining, combineError, combinationStatus, combining, merges,
     combineTimers, mergedDownloads >>
\* the state of DocumentWorkspace next to content and uploadedFiles, which
\* it hands to the PDFExporter
workspaceVars == << selectedTemplate, isFormatting, aiError, formatting, zoneError >>
\* the state of the PDFExporter itself
exporterState ==
  << fileName, isExporting, exportError, exportStatus, saving, timers, downloads >>
\* the state of the server
serverVars == << requestVars, files, parked, download >>
\* the state of the components in the browser
clientVars == << exportVars, convertVars, combineVars, workspaceVars >>
\* what a step of a request leaves alone
otherVars == << parked, download, clientVars >>
\* what a step of the PDFExporter leaves alone
outsideExporter == << serverVars, convertVars, combineVars, workspaceVars >>
\* what a step of ConvertToPDF leaves alone
outsideConvert == << serverVars, exportVars, combineVars, workspaceVars >>
\* what a step of CombinePDF leaves alone
outsideCombine == << serverVars, exportVars, convertVars, workspaceVars >>
\* what a step of DocumentWorkspace leaves alone outside itself and the
\* PDFExporter
outsideWorkspace == << serverVars, convertVars, combineVars >>
vars == << serverVars, exportVars, convertVars, combineVars, workspaceVars >>
layoutVars ==
  << textContent, paragraphs, pi, pages, currentPage, y, isHeading, lines, li,
     pageCount, i >>

SupportedExtensions ==
  {<<"d", "o", "c">>, <<"d", "o", "c", "x">>, <<"t", "x", "t">>,
   <<"r", "t", "f">>, <<"h", "t", "m", "l">>, <<"j", "p", "g">>,
   <<"j", "p", "e", "g">>, <<"p", "n", "g">>}
ImageExtensions == {<<"j", "p", "g">>, <<"j", "p", "e", "g">>, <<"p", "n", "g">>}
TextExtensions == {<<"t", "x", "t">>, <<"h", "t", "m", "l">>, <<"r", "t", "f">>}

fileExtension == toLowerCase(LastPiece(upload.name, {"."}))
tempDir == <<"/", "t", "/", "d">>
inputPath == tempDir \o <<"/">> \o fileId \o <<".">> \o fileExtension
outputPath == tempDir \o <<"/">> \o fileId \o <<".", "p", "d", "f">>
\* writeFile(path, content)
WriteFile(fs, path, data) ==
  [p \in DOMAIN fs \cup {path} |-> IF p = path THEN data ELSE fs[p]]

\* a request that has just arrived with the upload u
NewRequest(u) ==
  [pc |-> "request", upload |-> u, response |-> [status |-> 0, fileId |-> <<>>],
   fileId |-> <<>>, textContent |-> <<>>, paragraphs |-> <<>>, pi |-> 0,
   pages |-> <<>>, currentPage |-> 0, y |-> 0, isHeading |-> FALSE, lines |-> <<>>,
   li |-> 0, pageCount |-> 0, i |-> 0]
\* the request whose state the request variables hold
ThisRequest ==
  [pc |-> pc, upload |-> upload, response |-> response, fileId |-> fileId,
   textContent |-> textContent, paragraphs |-> paragraphs, pi |-> pi,
   pages |-> pages, currentPage |-> currentPage, y |-> y, isHeading |-> isHeading,
   lines |-> lines, li |-> li, pageCount |-> pageCount, i |-> i]
\* the request variables hold the request r
Holds(r) ==
  /\ pc = r.pc
  /\ upload = r.upload
  /\ response = r.response
  /\ fileId = r.fileId
  /\ textContent = r.textContent
  /\ paragraphs = r.paragraphs
  /\ pi = r.pi
  /\ pages = r.pages
  /\ currentPage = r.currentPage
  /\ y = r.y
  /\ isHeading = r.isHeading
  /\ lines = r.lines
  /\ li = r.li
  /\ pageCount = r.pageCount
  /\ i = r.i
\* no GET yet
NoDownload == [fileId |-> <<>>, status |-> 0, body |-> <<>>]
\* no second request
NoRequest == [NewRequest(NoFile) EXCEPT !.pc = "none"]
\* useState('Document')
DefaultFileName == <<"D", "o", "c", "u", "m", "e", "n", "t">>
\* the exporter as it is mounted, with nothing to export
ExporterIdle ==
  /\ content = <<>>
  /\ uploadedFiles = <<>>
  /\ fileName = DefaultFileName
  /\ isExporting = FALSE
  /\ exportError = <<>>
  /\ exportStatus = "idle"
  /\ saving = <<>>
  /\ timers = 0
  /\ downloads = <<>>

\* no file chosen in ConvertToPDF
NoSelection == [name |-> <<>>, type |-> <<>>, size |-> 0]
\* no call of handleConvert in progress
NoConversion == [file |-> NoSelection, stage |-> 0]
\* ConvertToPDF as it is mounted
ConvertToPdfIdle ==
  /\ file = NoSelection
  /\ isConverting = FALSE
  /\ error = <<>>
  /\ conversionStatus = "idle"
  /\ outputFileName = <<>>
  /\ conversionProgress = 0
  /\ running = NoConversion
  /\ resetTimers = 0
\* CombinePDF as it is mounted
CombinePdfIdle ==
  /\ pdfFiles = <<>>
  /\ isCombining = FALSE
  /\ combineError = <<>>
  /\ combinationStatus = "idle"
  /\ combining = <<>>
  /\ merges = <<>>
  /\ combineTimers = 0
  /\ mergedDownloads = <<>>
\* DocumentWorkspace as it is mounted, next to content and uploadedFiles
WorkspaceIdle ==
  /\ selectedTemplate = "standard"
  /\ isFormatting = FALSE
  /\ aiError = <<>>
  /\ formatting = <<>>
  /\ zoneError = <<>>
\* the components in the browser as they are mounted
ClientIdle == ExporterIdle /\ ConvertToPdfIdle /\ CombinePdfIdle /\ WorkspaceIdle
\* no request at the server
ServerIdle ==
  /\ Holds(NewRequest(NoFile))
  /\ files = <<>>
  /\ parked = NoRequest
  /\ download = NoDownload

Init ==
  /\ \E u \in Uploads : Holds(NewRequest(u))
  /\ files = <<>>
  /\ parked = NoRequest
  /\ download = NoDownload
  /\ ClientIdle

(***************************************************************************)
(* POST /api/convert.                                                      *)
(***************************************************************************)
Rejected ==
  \/ upload = NoFile
  \/ upload.size > MAX_FILE_SIZE
  \/ fileExtension \notin SupportedExtensions

\* no file, a file over the size limit, or an unsupported extension: 400
PostReject ==
  /\ pc = "request"
  /\ Rejected
  /\ response' = [status |-> 400, fileId |-> <<>>]
  /\ pc' = "responded"
  /\ UNCHANGED << upload, fileId, files, layoutVars >>
  /\ UNCHANGED otherVars

\* uuidv4() handing out an id a second time
AnyUuids == Uuids
\* the ids uuidv4() can return: it never returns one it has returned before
FreshUuids == Uuids \ {parked.fileId}

\* the upload is written to the temp directory under a fresh id
PostAccept ==
  /\ pc = "request"
  /\ ~Rejected
  /\ \E id \in FreshUuids :
       /\ fileId' = id
       /\ files' = WriteFile(files, tempDir \o <<"/">> \o id \o <<".">> \o fileExtension,
                             upload.content)
  /\ pc' = IF fileExtension \in ImageExtensions THEN "image"
           ELSE IF fileExtension \in TextExtensions THEN "text"
           ELSE "placeholder"
  /\ UNCHANGED << upload, response, layoutVars >>
  /\ UNCHANGED otherVars

Succeed == response' = [status |-> 200, fileId |-> fileId]

\* convertImageToPdf: one page with the image on it
ConvertImage ==
  /\ pc = "image"
  /\ files' = WriteFile(files, outputPath, << << [image |-> files[inputPath]] >> >>)
  /\ Succeed
  /\ pc' = "responded"
  /\ UNCHANGED << upload, fileId, layoutVars >>
  /\ UNCHANGED otherVars

\* convertImageToPdf throws (the bytes are no image): POST answers 500
ConvertImageThrows ==
  /\ pc = "image"
  /\ response' = [status |-> 500, fileId |-> <<>>]
  /\ pc' = "responded"
  /\ UNCHANGED << upload, fileId, files, layoutVars >>
  /\ UNCHANGED otherVars

\* createPlaceholderPdf: one page that names the upload
CreatePlaceholder ==
  /\ pc = "placeholder"
  /\ files' = WriteFile(files, outputPath, << << [placeholder |-> upload.name] >> >>)
  /\ Succeed
  /\ pc' = "responded"
  /\ UNCHANGED << upload, fileId, layoutVars >>
  /\ UNCHANGED otherVars

(***************************************************************************)
(* convertTextToPdf(inputPath, outputPath).                                *)
(***************************************************************************)
textPath == inputPath
TitleOf(path) == StripExtension(LastPiece(path, {"/", "\\"}))
TitleY == PageHeight - margin - titleFontSize
\* AddPage that stamps the footer of the page it leaves
AddPageStamped(doc) ==
  IF Len(doc) = 0 THEN Append(doc, <<>>)
  ELSE Append([doc EXCEPT ![Len(doc)] =
                 Append(@, TextRun(FooterText(Len(doc) - 1, Len(doc)), margin \div 2,
                                   FooterSize, "regularFont", "gray"))],
              <<>>)
\* pdfDoc.addPage
AddPage(doc) == Append(doc, <<>>)
\* page.drawText on page p of doc
DrawText(doc, p, run) == [doc EXCEPT ![p] = Append(@, run)]

\* the text is read, the first page added, the title drawn
ReadText ==
  /\ pc = "text"
  /\ textContent' = files[textPath]
  /\ paragraphs' = SplitParagraphs(files[textPath])
  /\ pages' = DrawText(AddPage(<<>>), 1,
                       TextRun(TitleOf(textPath), TitleY, TitleSize, "boldFont", "black"))
  /\ currentPage' = 1
  /\ y' = TitleY - (titleFontSize * 3) \div 2
  /\ pi' = 1
  /\ pc' = "paragraph"
  /\ UNCHANGED << upload, response, fileId, files, isHeading, lines, li, pageCount, i >>
  /\ UNCHANGED otherVars

\* SkipParagraph that leaves the space after a paragraph
SkipParagraphWithGap ==
  /\ pc = "paragraph"
  /\ pi <= Len(paragraphs)
  /\ trim(paragraphs[pi]) = <<>>
  /\ pi' = pi + 1
  /\ y' = y - fontSize
  /\ UNCHANGED << pc, upload, response, fileId, files, textContent, paragraphs,
                  pages, currentPage, isHeading, lines, li, pageCount, i >>
  /\ UNCHANGED otherVars
\* a paragraph that is empty after trimming is skipped
SkipParagraph ==
  /\ pc = "paragraph"
  /\ pi <= Len(paragraphs)
  /\ trim(paragraphs[pi]) = <<>>
  /\ pi' = pi + 1
  /\ UNCHANGED << pc, upload, response, fileId, files, textContent, paragraphs,
                  pages, currentPage, y, isHeading, lines, li, pageCount, i >>
  /\ UNCHANGED otherVars

\* the paragraph is classified and wrapped
WrapParagraph ==
  /\ pc = "paragraph"
  /\ pi <= Len(paragraphs)
  /\ trim(paragraphs[pi]) # <<>>
  /\ isHeading' = HeadingTest(paragraphs[pi])
  /\ lines' = WrapLines(paragraphs[pi], FontOf(HeadingTest(paragraphs[pi])),
                        SizeOf(HeadingTest(paragraphs[pi])))
  /\ pc' = "check"
  /\ UNCHANGED << upload, response, fileId, files, textContent, paragraphs, pi,
                  pages, currentPage, y, li, pageCount, i >>
  /\ UNCHANGED otherVars

\* CheckNewPage that adds the page and goes on drawing on the page it was on
CheckNewPageSamePage ==
  /\ pc = "check"
  /\ IF NeedsNewPage(y, Len(lines))
     THEN /\ pages' = AddPage(pages)
          /\ y' = TopOfPage
          /\ UNCHANGED currentPage
     ELSE UNCHANGED << pages, currentPage, y >>
  /\ li' = 1
  /\ pc' = "draw"
  /\ UNCHANGED << upload, response, fileId, files, textContent, paragraphs, pi,
                  isHeading, lines, pageCount, i >>
  /\ UNCHANGED otherVars
\* a page is added when the paragraph's lines do not all fit under the cursor
CheckNewPage ==
  /\ pc = "check"
  /\ IF NeedsNewPage(y, Len(lines))
     THEN /\ pages' = AddPage(pages)
          /\ currentPage' = Len(pages) + 1
          /\ y' = TopOfPage
     ELSE UNCHANGED << pages, currentPage, y >>
  /\ li' = 1
  /\ pc' = "draw"
  /\ UNCHANGED << upload, response, fileId, files, textContent, paragraphs, pi,
                  isHeading, lines, pageCount, i >>
  /\ UNCHANGED otherVars

\* DrawLine with the pitch taken from the size of the paragraph's face
DrawLineFacePitch ==
  /\ pc = "draw"
  /\ li <= Len(lines)
  /\ LET drawn == DrawText(pages, currentPage,
                           TextRun(lines[li], y, SizeOf(isHeading), FontOf(isHeading),
                                   "black"))
         pitch == (SizeOf(isHeading) * 3) \div 20
     IN IF OutOfSpace(y - pitch)
        THEN /\ pages' = AddPage(drawn)
             /\ currentPage' = Len(pages) + 1
             /\ y' = TopOfPage
        ELSE /\ pages' = drawn
             /\ y' = y - pitch
             /\ UNCHANGED currentPage
  /\ li' = li + 1
  /\ UNCHANGED << pc, upload, response, fileId, files, textContent, paragraphs, pi,
                  isHeading, lines, pageCount, i >>
  /\ UNCHANGED otherVars
\* one line is drawn, the cursor moves down, a page is added when it ran out
DrawLine ==
  /\ pc = "draw"
  /\ li <= Len(lines)
  /\ LET drawn == DrawText(pages, currentPage,
                           TextRun(lines[li], y, SizeOf(isHeading), FontOf(isHeading),
                                   "black"))
     IN IF OutOfSpace(y - lineHeight)
        THEN /\ pages' = AddPage(drawn)
             /\ currentPage' = Len(pages) + 1
             /\ y' = TopOfPage
        ELSE /\ pages' = drawn
             /\ y' = y - lineHeight
             /\ UNCHANGED currentPage
  /\ li' = li + 1
  /\ UNCHANGED << pc, upload, response, fileId, files, textContent, paragraphs, pi,
                  isHeading, lines, pageCount, i >>
  /\ UNCHANGED otherVars

\* EndParagraph that leaves the cursor where the last line put it
EndParagraphNoGap ==
  /\ pc = "draw"
  /\ li > Len(lines)
  /\ pi' = pi + 1
  /\ pc' = "paragraph"
  /\ UNCHANGED << upload, response, fileId, files, textContent, paragraphs, pages,
                  currentPage, y, isHeading, lines, li, pageCount, i >>
  /\ UNCHANGED otherVars
\* EndParagraph that goes back to the paragraph it has drawn
EndParagraphAgain ==
  /\ pc = "draw"
  /\ li > Len(lines)
  /\ y' = y - fontSize
  /\ pc' = "paragraph"
  /\ UNCHANGED << upload, response, fileId, files, textContent, paragraphs, pi, pages,
                  currentPage, isHeading, lines, li, pageCount, i >>
  /\ UNCHANGED otherVars
\* the space after a paragraph
EndParagraph ==
  /\ pc = "draw"
  /\ li > Len(lines)
  /\ y' = y - fontSize
  /\ pi' = pi + 1
  /\ pc' = "paragraph"
  /\ UNCHANGED << upload, response, fileId, files, textContent, paragraphs, pages,
                  currentPage, isHeading, lines, li, pageCount, i >>
  /\ UNCHANGED otherVars

\* the paragraph loop is over: the pages are counted
CountPages ==
  /\ pc = "paragraph"
  /\ pi > Len(paragraphs)
  /\ pageCount' = Len(pages)
  /\ i' = 0
  /\ pc' = "footer"
  /\ UNCHANGED << upload, response, fileId, files, textContent, paragraphs, pi,
                  pages, currentPage, y, isHeading, lines, li >>
  /\ UNCHANGED otherVars

\* StampFooter with the count of the pages up to this one
StampFooterRunning ==
  /\ pc = "footer"
  /\ i < pageCount
  /\ pages' = DrawText(pages, i + 1,
                       TextRun(FooterText(i, i + 1), margin \div 2, FooterSize,
                               "regularFont", "gray"))
  /\ i' = i + 1
  /\ UNCHANGED << pc, upload, response, fileId, files, textContent, paragraphs, pi,
                  currentPage, y, isHeading, lines, li, pageCount >>
  /\ UNCHANGED otherVars
\* the footer of page i
StampFooter ==
  /\ pc = "footer"
  /\ i < pageCount
  /\ pages' = DrawText(pages, i + 1,
                       TextRun(FooterText(i, pageCount), margin \div 2, FooterSize,
                               "regularFont", "gray"))
  /\ i' = i + 1
  /\ UNCHANGED << pc, upload, response, fileId, files, textContent, paragraphs, pi,
                  currentPage, y, isHeading, lines, li, pageCount >>
  /\ UNCHANGED otherVars

\* the document is saved to outputPath and POST answers with the fileId
SavePdf ==
  /\ pc = "footer"
  /\ i >= pageCount
  /\ files' = WriteFile(files, outputPath, pages)
  /\ Succeed
  /\ pc' = "responded"
  /\ UNCHANGED << upload, fileId, layoutVars >>
  /\ UNCHANGED otherVars

Next ==
  \/ PostReject
  \/ PostAccept
  \/ ConvertImage
  \/ ConvertImageThrows
  \/ CreatePlaceholder
  \/ ReadText
  \/ SkipParagraph
  \/ WrapParagraph
  \/ CheckNewPage
  \/ DrawLine
  \/ EndParagraph
  \/ CountPages
  \/ StampFooter
  \/ SavePdf

Spec == Init /\ [][Next]_vars

(***************************************************************************)
(* Two requests to POST /api/convert at once.  Node runs one request until *)
(* it awaits; the other request then runs on from its own await.           *)
(***************************************************************************)
\* the request is at an await: of request.formData(), of a convert call
\* after writeFile(inputPath), of pdfDoc.save() and writeFile(outputPath),
\* or it has answered
AtAwait ==
  \/ pc \in {"request", "image", "text", "placeholder", "responded"}
  \/ pc = "footer" /\ i >= pageCount

\* the running request waits and the waiting request runs on
Switch ==
  /\ parked.pc # "none"
  /\ AtAwait
  /\ pc' = parked.pc
  /\ upload' = parked.upload
  /\ response' = parked.response
  /\ fileId' = parked.fileId
  /\ textContent' = parked.textContent
  /\ paragraphs' = parked.paragraphs
  /\ pi' = parked.pi
  /\ pages' = parked.pages
  /\ currentPage' = parked.currentPage
  /\ y' = parked.y
  /\ isHeading' = parked.isHeading
  /\ lines' = parked.lines
  /\ li' = parked.li
  /\ pageCount' = parked.pageCount
  /\ i' = parked.i
  /\ parked' = ThisRequest
  /\ UNCHANGED << files, download, clientVars >>

\* the uploads of the two requests: texts of one and of several pages, with
\* and without a blank first paragraph, an image, a document, no file
ConcurrentTexts ==
  {<<"a">>, <<"\n", "\n", "W", ".">>, TallParagraph(MaxLines),
   TallParagraph(MaxTail) \o <<"\n", "\n", "a">>}
ConcurrentUploads ==
  {Upload(TxtName, Len(t), t) : t \in ConcurrentTexts}
    \cup {Upload(PngName, 1, <<"a">>), Upload(DocxName, 1, <<"a">>), NoFile}

ConcurrentInit ==
  /\ \E u \in ConcurrentUploads : Holds(NewRequest(u))
  /\ files = <<>>
  /\ parked \in {NewRequest(u) : u \in ConcurrentUploads}
  /\ download = NoDownload
  /\ ClientIdle

ConcurrentNext ==
  \/ Next
  \/ Switch

ConcurrentSpec == ConcurrentInit /\ [][ConcurrentNext]_vars

(***************************************************************************)
(* GET /api/convert/download, next to one request to POST /api/convert.    *)
(***************************************************************************)
\* the segments of a path: its pieces between the separators
RECURSIVE SegmentsOf(_, _)
SegmentsOf(path, piece) ==
  IF path = <<>> THEN << piece >>
  ELSE IF Head(path) = "/" THEN << piece >> \o SegmentsOf(Tail(path), <<>>)
  ELSE SegmentsOf(Tail(path), Append(piece, Head(path)))
\* path.normalize on the segments of an absolute path: empty segments and
\* '.' go, '..' takes the segment before it
RECURSIVE Normalized(_, _)
Normalized(segments, kept) ==
  IF segments = <<>> THEN kept
  ELSE IF Head(segments) \in {<<>>, <<".">>} THEN Normalized(Tail(segments), kept)
  ELSE IF Head(segments) = <<".", ".">>
  THEN Normalized(Tail(segments), SubSeq(kept, 1, Len(kept) - 1))
  ELSE Normalized(Tail(segments), Append(kept, Head(segments)))
RECURSIVE PathOf(_)
PathOf(segments) ==
  IF segments = <<>> THEN <<>> ELSE <<"/">> \o Head(segments) \o PathOf(Tail(segments))
\* path.join(dir, name) for an absolute dir
join(dir, name) == PathOf(Normalized(SegmentsOf(dir \o <<"/">> \o name, <<>>), <<>>))

\* a PDF of another program in os.tmpdir(), beside the converter's directory
ForeignPath == <<"/", "t", "/", "s", ".", "p", "d", "f">>
ForeignFiles == [p \in {ForeignPath} |-> <<"s">>]
\* the fileId parameters of the GET requests: none, the ids of uuidv4(), an
\* id of no conversion, a relative path
FileIdParams == Uuids \cup {<<>>, <<"x">>, <<".", ".", "/", "s">>}

\* GET: the request comes in while POST is at an await or has answered
Get ==
  /\ AtAwait
  /\ \E id \in FileIdParams :
       LET pdfPath == join(tempDir, id \o <<".", "p", "d", "f">>)
       IN download' =
            IF id = <<>> THEN [fileId |-> id, status |-> 400, body |-> <<>>]
            ELSE IF pdfPath \notin DOMAIN files
            THEN [fileId |-> id, status |-> 404, body |-> <<>>]
            ELSE [fileId |-> id, status |-> 200, body |-> files[pdfPath]]
  /\ UNCHANGED << requestVars, files, parked, clientVars >>

DownloadInit ==
  /\ \E u \in ConcurrentUploads : Holds(NewRequest(u))
  /\ files = ForeignFiles
  /\ parked = NoRequest
  /\ download = NoDownload
  /\ ClientIdle

DownloadNext ==
  \/ Next
  \/ Get

DownloadSpec == DownloadInit /\ [][DownloadNext]_vars

(***************************************************************************)
(* PDFExporter: the export panel of the document workspace.                *)
(***************************************************************************)
\* what the user types into the file name field
FileNames == {DefaultFileName, <<"x">>}
\* the content prop: the editor's text, empty or not
Contents == {<<>>, <<"a">>}
\* a PDF file of n pages
PdfFile(name, n) == [name |-> name, pages |-> [k \in 1..n |-> [of |-> name, n |-> k]]]
\* the uploadedFiles prop: up to MaxFiles files of one and of two pages
UploadedPdfs == {PdfFile(<<"a", ".", "p", "d", "f">>, 1), PdfFile(<<"b", ".", "p", "d", "f">>, 2)}
UploadLists == UNION {[1..n -> UploadedPdfs] : n \in 0..MaxFiles}
\* the pages html2pdf makes of the preview of the content c
GeneratedPdf(c) == << [of |-> <<"p", "r", "e", "v", "i", "e", "w">>, html |-> c] >>

ExportInit ==
  /\ ServerIdle
  /\ ConvertToPdfIdle
  /\ CombinePdfIdle
  /\ WorkspaceIdle
  /\ content \in Contents
  /\ uploadedFiles \in UploadLists
  /\ fileName = DefaultFileName
  /\ isExporting = FALSE
  /\ exportError = <<>>
  /\ exportStatus = "idle"
  /\ saving = <<>>
  /\ timers = 0
  /\ downloads = <<>>

\* the file name field is edited
SetFileName ==
  /\ \E name \in FileNames \ {fileName} : fileName' = name
  /\ UNCHANGED << content, uploadedFiles, isExporting, exportError, exportStatus,
                  saving, timers, downloads >>
  /\ UNCHANGED outsideExporter

\* the Export PDF button is enabled
ExportEnabled == exportStatus # "preparing" /\ content # <<>>

\* handleExportPDF up to its await: the button is pressed and html2pdf is
\* started on the preview with the file name of this moment (the handler's
\* own test of the content never finds it empty: the button is disabled then)
ExportClick ==
  /\ ExportEnabled
  /\ Len(saving) + Len(downloads) < MaxExports
  /\ isExporting' = TRUE
  /\ exportError' = <<>>
  /\ exportStatus' = "preparing"
  /\ saving' = Append(saving, [filename |-> fileName \o <<".", "p", "d", "f">>])
  /\ UNCHANGED << content, uploadedFiles, fileName, timers, downloads >>
  /\ UNCHANGED outsideExporter

\* html2pdf().save() resolves: the generated PDF is downloaded, the status
\* is success and the timer that resets it is set
SaveResolves ==
  /\ saving # <<>>
  /\ downloads' = Append(downloads, [filename |-> Head(saving).filename,
                                     pages |-> GeneratedPdf(content)])
  /\ saving' = Tail(saving)
  /\ exportStatus' = "success"
  /\ timers' = timers + 1
  /\ isExporting' = FALSE
  /\ UNCHANGED << content, uploadedFiles, fileName, exportError >>
  /\ UNCHANGED outsideExporter

\* html2pdf().save() rejects: the status is error
SaveRejects ==
  /\ saving # <<>>
  /\ saving' = Tail(saving)
  /\ exportStatus' = "error"
  /\ isExporting' = FALSE
  /\ UNCHANGED << content, uploadedFiles, fileName, exportError, timers, downloads >>
  /\ UNCHANGED outsideExporter

\* the timer set after a success runs three seconds later
StatusTimeout ==
  /\ timers > 0
  /\ timers' = timers - 1
  /\ exportStatus' = "idle"
  /\ UNCHANGED << content, uploadedFiles, fileName, isExporting, exportError,
                  saving, downloads >>
  /\ UNCHANGED outsideExporter

ExportNext ==
  \/ SetFileName
  \/ ExportClick
  \/ SaveResolves
  \/ SaveRejects
  \/ StatusTimeout

ExportSpec == ExportInit /\ [][ExportNext]_vars

(***************************************************************************)
(* ConvertToPDF: the conversion panel.                                     *)
(***************************************************************************)
\* most reset timers pending at once
MaxTimers == 2
ClientMaxFileSize == 10 * 1024 * 1024
supportedFileTypes ==
  {<<"d", "o", "c">>, <<"d", "o", "c", "x">>, <<"x", "l", "s">>,
   <<"x", "l", "s", "x">>, <<"p", "p", "t">>, <<"p", "p", "t", "x">>,
   <<"t", "x", "t">>, <<"r", "t", "f">>, <<"h", "t", "m", "l">>,
   <<"j", "p", "g">>, <<"j", "p", "e", "g">>, <<"p", "n", "g">>}
SelectedFile(name, type, size) == [name |-> name, type |-> type, size |-> size]
ImageType == <<"i", "m", "a", "g", "e", "/", "p", "n", "g">>
\* the files the user can choose: an image, a DOCX, a text, a PDF (not
\* supported), a text over the size limit
Selectable ==
  {SelectedFile(PngName, ImageType, 1), SelectedFile(DocxName, <<>>, 1),
   SelectedFile(TxtName, <<>>, 1), SelectedFile(PdfName, <<>>, 1),
   SelectedFile(TxtName, <<>>, ClientMaxFileSize + 1)}
\* s.startsWith(prefix)
startsWith(s, prefix) ==
  Len(s) >= Len(prefix) /\ SubSeq(s, 1, Len(prefix)) = prefix
\* name.split('.')[0]
FirstPiece(s) ==
  IF includes(s, ".")
  THEN SubSeq(s, 1, (CHOOSE k \in 1..Len(s) : s[k] = "." /\ \A j \in 1..(k - 1) : s[j] # ".") - 1)
  ELSE s

\* handleFileChange: a file is chosen
HandleFileChange ==
  /\ \E selectedFile \in Selectable :
       /\ selectedFile # file
       /\ IF selectedFile.size > ClientMaxFileSize
          THEN /\ error' = <<"s", "i", "z", "e">>
               /\ UNCHANGED << file, outputFileName >>
          ELSE IF toLowerCase(LastPiece(selectedFile.name, {"."})) \notin supportedFileTypes
          THEN /\ error' = <<"t", "y", "p", "e">>
               /\ UNCHANGED << file, outputFileName >>
          ELSE /\ error' = <<>>
               /\ file' = selectedFile
               /\ outputFileName' = FirstPiece(selectedFile.name) \o <<".", "p", "d", "f">>
  /\ UNCHANGED << isConverting, conversionStatus, conversionProgress, running,
                  resetTimers >>
  /\ UNCHANGED outsideConvert

\* the values of conversionProgress at the awaits of a conversion: of
\* convertImageToPdf, convertDocxToPdf and convertUsingServerApi
ProgressSteps(f) ==
  IF startsWith(f.type, <<"i", "m", "a", "g", "e", "/">>) THEN <<20, 80>>
  ELSE IF /\ Len(f.name) >= 5
          /\ SubSeq(f.name, Len(f.name) - 4, Len(f.name)) = <<".", "d", "o", "c", "x">>
       THEN <<10, 30, 80>>
  ELSE <<30, 60>>

\* the Convert to PDF button is enabled
ConvertEnabled == ~isConverting /\ file # NoSelection

\* handleConvert up to the first await of the conversion it chooses
HandleConvert ==
  /\ ConvertEnabled
  /\ resetTimers < MaxTimers
  /\ isConverting' = TRUE
  /\ conversionStatus' = "converting"
  /\ error' = <<>>
  /\ running' = [file |-> file, stage |-> 1]
  /\ conversionProgress' = ProgressSteps(file)[1]
  /\ UNCHANGED << file, outputFileName, resetTimers >>
  /\ UNCHANGED outsideConvert

\* the conversion goes on from one await to the next
ConversionStep ==
  /\ running # NoConversion
  /\ running.stage < Len(ProgressSteps(running.file))
  /\ running' = [running EXCEPT !.stage = @ + 1]
  /\ conversionProgress' = ProgressSteps(running.file)[running.stage + 1]
  /\ UNCHANGED << file, isConverting, error, conversionStatus, outputFileName,
                  resetTimers >>
  /\ UNCHANGED outsideConvert

\* the conversion returns: success, and the timer that resets the status
ConversionSucceeds ==
  /\ running # NoConversion
  /\ running.stage = Len(ProgressSteps(running.file))
  /\ conversionProgress' = 100
  /\ conversionStatus' = "success"
  /\ resetTimers' = resetTimers + 1
  /\ isConverting' = FALSE
  /\ running' = NoConversion
  /\ UNCHANGED << file, error, outputFileName >>
  /\ UNCHANGED outsideConvert

\* the conversion throws at an await: error
ConversionFails ==
  /\ running # NoConversion
  /\ error' = <<"f", "a", "i", "l", "e", "d">>
  /\ conversionStatus' = "error"
  /\ isConverting' = FALSE
  /\ running' = NoConversion
  /\ UNCHANGED << file, outputFileName, conversionProgress, resetTimers >>
  /\ UNCHANGED outsideConvert

\* the timer set after a success runs three seconds later
ResetTimeout ==
  /\ resetTimers > 0
  /\ resetTimers' = resetTimers - 1
  /\ conversionStatus' = "idle"
  /\ conversionProgress' = 0
  /\ UNCHANGED << file, isConverting, error, outputFileName, running >>
  /\ UNCHANGED outsideConvert

\* the chosen file is removed
RemoveFile ==
  /\ file # NoSelection
  /\ file' = NoSelection
  /\ UNCHANGED << isConverting, error, conversionStatus, outputFileName,
                  conversionProgress, running, resetTimers >>
  /\ UNCHANGED outsideConvert

ConvertToPdfInit ==
  /\ ServerIdle
  /\ ClientIdle

ConvertToPdfNext ==
  \/ HandleFileChange
  \/ RemoveFile
  \/ HandleConvert
  \/ ConversionStep
  \/ ConversionSucceeds
  \/ ConversionFails
  \/ ResetTimeout

ConvertToPdfSpec == ConvertToPdfInit /\ [][ConvertToPdfNext]_vars

(***************************************************************************)
(* CombinePDF: the panel that merges chosen PDF files.                     *)
(***************************************************************************)
\* most files in the list of CombinePDF
MaxSelected == 2
\* most merges begun that did not fail
MaxMerges == 1
CombineMaxFileSize == 10 * 1024 * 1024
PdfType == <<"a", "p", "p", "l", "i", "c", "a", "t", "i", "o", "n", "/", "p", "d", "f">>
\* a chosen file; valid says whether PDFDocument.load accepts its bytes
ChosenFile(name, type, size, valid) ==
  [name |-> name, type |-> type, size |-> size, valid |-> valid]
\* a PDF, a file of type PDF that is no PDF, a text, a PDF over the limit
Choosable ==
  {ChosenFile(<<"a">>, PdfType, 1, TRUE), ChosenFile(<<"b">>, PdfType, 1, FALSE),
   ChosenFile(<<"c">>, <<"t", "e", "x", "t">>, 1, TRUE),
   ChosenFile(<<"d">>, PdfType, CombineMaxFileSize + 1, TRUE)}

\* handleFileChange: one file is chosen in the file dialog
CombineFileChange ==
  /\ \E selected \in Choosable :
       IF selected.type # PdfType
       THEN combineError' = <<"t", "y", "p", "e">> /\ UNCHANGED pdfFiles
       ELSE IF selected.size > CombineMaxFileSize
       THEN combineError' = <<"s", "i", "z", "e">> /\ UNCHANGED pdfFiles
       ELSE /\ Len(pdfFiles) < MaxSelected
            /\ combineError' = <<>>
            /\ pdfFiles' = Append(pdfFiles, selected)
  /\ UNCHANGED << isCombining, combinationStatus, combining, merges, combineTimers,
                  mergedDownloads >>
  /\ UNCHANGED outsideCombine

\* handleRemoveFile(index)
HandleRemoveFile ==
  /\ \E index \in 1..Len(pdfFiles) :
       pdfFiles' = SubSeq(pdfFiles, 1, index - 1) \o SubSeq(pdfFiles, index + 1, Len(pdfFiles))
  /\ UNCHANGED << isCombining, combineError, combinationStatus, combining, merges,
                  combineTimers, mergedDownloads >>
  /\ UNCHANGED outsideCombine

\* handleClearAll
HandleClearAll ==
  /\ pdfFiles # <<>>
  /\ pdfFiles' = <<>>
  /\ UNCHANGED << isCombining, combineError, combinationStatus, combining, merges,
                  combineTimers, mergedDownloads >>
  /\ UNCHANGED outsideCombine

\* the Combine PDFs button is enabled
CombineEnabled == ~isCombining /\ Len(pdfFiles) >= 2

\* handleCombine up to its await of the two-second timeout (the handler's
\* own test of the number of files never fails: the button is disabled then)
HandleCombine ==
  /\ CombineEnabled
  /\ Len(merges) + Len(mergedDownloads) < MaxMerges
  /\ combineTimers < MaxTimers
  /\ isCombining' = TRUE
  /\ combinationStatus' = "combining"
  /\ combineError' = <<>>
  /\ combining' = pdfFiles
  /\ UNCHANGED << pdfFiles, merges, combineTimers, mergedDownloads >>
  /\ UNCHANGED outsideCombine

\* handleCombine after the timeout: mockCombinePDFs is called and not
\* awaited, the status is success, the status timer is set
CombineResumes ==
  /\ isCombining
  /\ merges' = Append(merges, [files |-> combining, done |-> 0])
  /\ combinationStatus' = "success"
  /\ combineTimers' = combineTimers + 1
  /\ isCombining' = FALSE
  /\ combining' = <<>>
  /\ UNCHANGED << pdfFiles, combineError, mergedDownloads >>
  /\ UNCHANGED outsideCombine

\* mockCombinePDFs copies the pages of its next file
MergeCopiesFile ==
  /\ merges # <<>>
  /\ Head(merges).done < Len(Head(merges).files)
  /\ Head(merges).files[Head(merges).done + 1].valid
  /\ merges' = <<[Head(merges) EXCEPT !.done = @ + 1]>> \o Tail(merges)
  /\ UNCHANGED << pdfFiles, isCombining, combineError, combinationStatus, combining,
                  combineTimers, mergedDownloads >>
  /\ UNCHANGED outsideCombine

\* mockCombinePDFs cannot load its next file and throws: the promise nobody
\* awaits is rejected
MergeThrows ==
  /\ merges # <<>>
  /\ Head(merges).done < Len(Head(merges).files)
  /\ ~Head(merges).files[Head(merges).done + 1].valid
  /\ merges' = Tail(merges)
  /\ UNCHANGED << pdfFiles, isCombining, combineError, combinationStatus, combining,
                  combineTimers, mergedDownloads >>
  /\ UNCHANGED outsideCombine

\* mockCombinePDFs saves the merged document and makes the browser download it
MergeDownloads ==
  /\ merges # <<>>
  /\ Head(merges).done = Len(Head(merges).files)
  /\ mergedDownloads' = Append(mergedDownloads, Head(merges).files)
  /\ merges' = Tail(merges)
  /\ UNCHANGED << pdfFiles, isCombining, combineError, combinationStatus, combining,
                  combineTimers >>
  /\ UNCHANGED outsideCombine

\* the timer set after a success runs three seconds later
CombineTimeout ==
  /\ combineTimers > 0
  /\ combineTimers' = combineTimers - 1
  /\ combinationStatus' = "idle"
  /\ UNCHANGED << pdfFiles, isCombining, combineError, combining, merges,
                  mergedDownloads >>
  /\ UNCHANGED outsideCombine

CombineInit ==
  /\ ServerIdle
  /\ ClientIdle

CombineNext ==
  \/ CombineFileChange
  \/ HandleRemoveFile
  \/ HandleClearAll
  \/ HandleCombine
  \/ CombineResumes
  \/ MergeCopiesFile
  \/ MergeThrows
  \/ MergeDownloads
  \/ CombineTimeout

CombineSpec == CombineInit /\ [][CombineNext]_vars

(***************************************************************************)
(* DocumentWorkspace: the editor's content, the AI formatting and the list *)
(* of uploaded files.  content holds the parsed value of the JSON string   *)
(* the editor stores, <<>> for the empty string.                           *)
(***************************************************************************)
\* most files in one drop or one choice of the file dialog
MaxDropped == 2
TemplateTypes == {"standard", "report", "whitepaper"}
\* a Slate text leaf; a leaf without the bold key has bold FALSE
Leaf(text, bold) == [text |-> text, bold |-> bold]
\* a Slate element
Element(type, children) == [type |-> type, children |-> children]
\* the value handleAiFormat stores: one paragraph holding the text
FormattedContent(text) == << Element("paragraph", << Leaf(text, FALSE) >>) >>
\* the documents the editor hands to onContentChange: one plain paragraph,
\* two paragraphs, a heading, a bold paragraph, a paragraph of one space,
\* two empty paragraphs
EditorValues ==
  {FormattedContent(<<"a">>),
   << Element("paragraph", << Leaf(<<"a">>, FALSE) >>),
      Element("paragraph", << Leaf(<<"b">>, FALSE) >>) >>,
   << Element("heading-one", << Leaf(<<"a">>, FALSE) >>) >>,
   << Element("paragraph", << Leaf(<<"a">>, TRUE) >>) >>,
   FormattedContent(<<" ">>),
   << Element("paragraph", << Leaf(<<>>, FALSE) >>),
      Element("paragraph", << Leaf(<<>>, FALSE) >>) >>}
\* what the AI route answers with
FormattedTexts == {<<"A">>}

\* extractTextFromSlateNodes, for elements whose children are leaves
extractTextFromSlateNodes(nodes) ==
  JoinWords([k \in 1..Len(nodes) |->
    JoinWords([j \in 1..Len(nodes[k].children) |-> nodes[k].children[j].text])])

\* formatWithAi refuses the text
Refused(text) == text = <<>> \/ trim(text) = <<>>

\* handleContentChange: the editor reports a change
HandleContentChange ==
  /\ \E newContent \in EditorValues : content' = newContent
  /\ UNCHANGED << uploadedFiles, exporterState, workspaceVars >>
  /\ UNCHANGED outsideWorkspace

\* handleTemplateChange
HandleTemplateChange ==
  /\ \E template \in TemplateTypes : selectedTemplate' = template
  /\ UNCHANGED << isFormatting, aiError, formatting, zoneError >>
  /\ UNCHANGED << content, uploadedFiles, exporterState >>
  /\ UNCHANGED outsideWorkspace

\* the Format with AI button is enabled
FormatEnabled == ~isFormatting /\ content # <<>>

\* handleAiFormat up to the await of axios.post; when formatWithAi refuses
\* the text it returns it at once and handleAiFormat runs to its end
HandleAiFormat ==
  /\ FormatEnabled
  /\ LET plainText == extractTextFromSlateNodes(content)
     IN IF Refused(plainText)
        THEN /\ aiError' = "Please provide text to format"
             /\ content' = FormattedContent(plainText)
             /\ UNCHANGED << isFormatting, formatting >>
        ELSE /\ isFormatting' = TRUE
             /\ aiError' = <<>>
             /\ formatting' = << [text |-> plainText, template |-> selectedTemplate] >>
             /\ UNCHANGED content
  /\ UNCHANGED << selectedTemplate, zoneError, uploadedFiles, exporterState >>
  /\ UNCHANGED outsideWorkspace

\* the request to /api/ai/route succeeds: formatWithAi returns the answer
\* and handleAiFormat stores it
AiResponds ==
  /\ formatting # <<>>
  /\ \E formattedText \in FormattedTexts : content' = FormattedContent(formattedText)
  /\ isFormatting' = FALSE
  /\ formatting' = <<>>
  /\ UNCHANGED << selectedTemplate, aiError, zoneError, uploadedFiles, exporterState >>
  /\ UNCHANGED outsideWorkspace

\* the request fails: formatWithAi returns the text it was given and
\* handleAiFormat stores it
AiFails ==
  /\ formatting # <<>>
  /\ isFormatting' = FALSE
  /\ aiError' \in {"Failed to format text with AI", "Failed to process text with AI"}
  /\ content' = FormattedContent(formatting[1].text)
  /\ formatting' = <<>>
  /\ UNCHANGED << selectedTemplate, zoneError, uploadedFiles, exporterState >>
  /\ UNCHANGED outsideWorkspace

AiFormatInit ==
  /\ ServerIdle
  /\ ClientIdle

AiFormatNext ==
  \/ HandleContentChange
  \/ HandleTemplateChange
  \/ HandleAiFormat
  \/ AiResponds
  \/ AiFails

AiFormatSpec == AiFormatInit /\ [][AiFormatNext]_vars

\* the most files handleFileUpload keeps
MaxUploaded == 10
ZoneMaxFileSize == 5 * 1024 * 1024
\* a file dropped on the zone or chosen in its dialog
DroppedFile(name, type, size) == [name |-> name, type |-> type, size |-> size]
\* two PDFs, one of them of exactly the largest size, a text, a PDF over
\* the limit
Droppable ==
  {DroppedFile(<<"p">>, PdfType, 1), DroppedFile(<<"q">>, PdfType, ZoneMaxFileSize),
   DroppedFile(<<"t">>, <<"t", "e", "x", "t">>, 1),
   DroppedFile(<<"o">>, PdfType, ZoneMaxFileSize + 1)}
FileLists == UNION {[1..n -> Droppable] : n \in 1..MaxDropped}

\* validateFiles: the files that pass, in their order
RECURSIVE validFilesOf(_)
validFilesOf(fs) ==
  IF fs = <<>> THEN <<>>
  ELSE IF Head(fs).type # PdfType \/ Head(fs).size > ZoneMaxFileSize
  THEN validFilesOf(Tail(fs))
  ELSE << Head(fs) >> \o validFilesOf(Tail(fs))
\* validateFiles: the error it leaves, that of the last file that fails
RECURSIVE zoneErrorOf(_, _)
zoneErrorOf(fs, err) ==
  IF fs = <<>> THEN err
  ELSE IF Head(fs).type # PdfType
  THEN zoneErrorOf(Tail(fs), <<"t", "y", "p", "e">>)
  ELSE IF Head(fs).size > ZoneMaxFileSize
  THEN zoneErrorOf(Tail(fs), <<"s", "i", "z", "e">> \o Head(fs).name)
  ELSE zoneErrorOf(Tail(fs), err)

\* handleFileUpload without its slice(0, 10)
AfterUploadUncut(uploaded, newOnes) == uploaded \o newOnes
\* handleFileUpload
AfterUpload(uploaded, newOnes) ==
  SubSeq(uploaded \o newOnes, 1, Min({MaxUploaded, Len(uploaded \o newOnes)}))

\* handleDrop and handleFileInputChange: processFiles validates the files
\* and hands those that pass to handleFileUpload
ProcessFiles ==
  /\ \E fileList \in FileLists :
       /\ zoneError' = zoneErrorOf(fileList, <<>>)
       /\ IF validFilesOf(fileList) # <<>>
          THEN uploadedFiles' = AfterUpload(uploadedFiles, validFilesOf(fileList))
          ELSE UNCHANGED uploadedFiles
  /\ UNCHANGED << selectedTemplate, isFormatting, aiError, formatting >>
  /\ UNCHANGED << content, exporterState >>
  /\ UNCHANGED outsideWorkspace

\* handleFileRemove(index); the source counts from 0
HandleFileRemove ==
  /\ \E index \in 1..Len(uploadedFiles) :
       uploadedFiles' =
         SubSeq(uploadedFiles, 1, index - 1)
           \o SubSeq(uploadedFiles, index + 1, Len(uploadedFiles))
  /\ UNCHANGED << content, exporterState, workspaceVars >>
  /\ UNCHANGED outsideWorkspace

UploadInit ==
  /\ ServerIdle
  /\ ClientIdle

UploadNext ==
  \/ ProcessFiles
  \/ HandleFileRemove

UploadSpec == UploadInit /\ [][UploadNext]_vars

(***************************************************************************)
(* Properties.                                                             *)
(***************************************************************************)
\* a text conversion that ran to its end
Finished ==
  pc = "responded" /\ response.status = 200 /\ fileExtension \in TextExtensions
\* the saved document
Doc == files[outputPath]
IsTitle(r) == r.size = TitleSize
IsBody(r) == r.size \in {BodySize, HeadingSize}
IsFooter(r) == r.size = FooterSize
BodyRuns(page) == SelectSeq(page, IsBody)
RECURSIVE ConcatAll(_)
ConcatAll(ss) == IF Len(ss) = 0 THEN <<>> ELSE Head(ss) \o ConcatAll(Tail(ss))
\* the body lines of a document in page order, then line order
BodyLines(doc) == ConcatAll([p \in 1..Len(doc) |-> BodyRuns(doc[p])])
RECURSIVE JoinLines(_)
JoinLines(runs) ==
  IF Len(runs) = 0 THEN <<>>
  ELSE Head(runs).text \o <<"\n">> \o JoinLines(Tail(runs))
\* the whitespace-separated words of a string
WordsOf(s) == RunsOf(s, RunStarts(s))
PageLabel(n, total) ==
  <<"P", "a", "g", "e", " ">> \o Digits(n) \o <<" ", "o", "f", " ">> \o Digits(total)

PageCountAccuracy ==
  Finished =>
    \A n \in 1..Len(Doc) :
      /\ Len(SelectSeq(Doc[n], IsFooter)) = 1
      /\ SelectSeq(Doc[n], IsFooter)[1].text = PageLabel(n, Len(Doc))
\* a finished document of three pages
PageCountAccuracyWitness == Finished /\ Len(Doc) = 3

\* C6: cursor invariant.  No body line is ever drawn below the bottom margin,
\* and whenever a line is about to be drawn the cursor is not below it.
CursorInvariant ==
  /\ \A n \in 1..Len(pages) : \A k \in 1..Len(pages[n]) :
       IsBody(pages[n][k]) => pages[n][k].y >= margin
  /\ (pc = "draw" /\ li <= Len(lines)) => y >= margin
\* a line is about to be drawn at the top of a page that was added because
\* the cursor ran below the margin in the middle of a paragraph
CursorInvariantWitness ==
  /\ pc = "draw"
  /\ li > 1
  /\ li <= Len(lines)
  /\ y = TopOfPage
  /\ pages[currentPage] = <<>>

\* C7: line width bound.  Every line the word-wrap loop produces is at most
\* maxWidth wide in the font and size of its paragraph, unless it consists of
\* a single word.
LineWidthBound ==
  pc \in {"check", "draw"} =>
    \A k \in 1..Len(lines) :
      \/ Len(WordsOf(lines[k])) = 1
      \/ SumWidths(lines[k], FontOf(isHeading), Glyphs) * SizeOf(isHeading)
           <= (PageWidth - 2 * margin) * 10000
\* a paragraph was wrapped to several lines, one of them of several words
LineWidthBoundWitness ==
  /\ pc = "check"
  /\ Len(lines) >= 2
  /\ \E k \in 1..Len(lines) : Len(WordsOf(lines[k])) >= 2

\* C9: empty input.  A text that is empty or only whitespace gives one page
\* that holds the title and the footer "Page 1 of 1" and no body line.
EmptyInput ==
  (Finished /\ \A k \in 1..Len(textContent) : IsWS(textContent[k])) =>
    /\ Len(Doc) = 1
    /\ Len(Doc[1]) = 2
    /\ IsTitle(Doc[1][1])
    /\ IsFooter(Doc[1][2])
    /\ Doc[1][2].text = PageLabel(1, 1)
\* a finished conversion of a text of blank lines only
EmptyInputWitness ==
  /\ Finished
  /\ Len(textContent) >= 3
  /\ \A k \in 1..Len(textContent) : textContent[k] = "\n"

\* C2: pagination overflow scenario.  A text of one body paragraph that wraps
\* to 42 lines gives at least two pages, the paragraph's first lines are on
\* page 1 and the rest continue on page 2, and the footer of page 1 reads
\* "Page 1 of 2".
OverflowScenario ==
  (Finished /\ textContent = TallParagraph(42)) =>
    /\ Len(Doc) >= 2
    /\ Len(BodyRuns(Doc[1])) >= 1
    /\ Len(BodyRuns(Doc[1])) + Len(BodyRuns(Doc[2])) = 42
    /\ SelectSeq(Doc[1], IsFooter)[1].text = PageLabel(1, 2)

NoBlankPage ==
  Finished => \A n \in 2..Len(Doc) : Len(BodyRuns(Doc[n])) >= 1

\* C8: heading classification.  A paragraph (its text, without the whitespace
\* around it) is a heading exactly when its length is under 80 and it ends
\* with ':' or holds no '.' or equals its own uppercasing.
ParagraphText == trim(paragraphs[pi])
HeadingClassification ==
  pc = "check" =>
    (isHeading <=>
       /\ Len(ParagraphText) < 80
       /\ \/ ParagraphText[Len(ParagraphText)] = ":"
          \/ \A k \in 1..Len(ParagraphText) : ParagraphText[k] # "."
          \/ \A k \in 1..Len(ParagraphText) :
               ParagraphText[k] = UpperChar(ParagraphText[k]))

\* C10: title derivation.  The title is drawn once, on page 1 only, and it
\* is the name of the uploaded file with its extension stripped.
TitleIsUploadName ==
  Finished =>
    /\ Len(SelectSeq(Doc[1], IsTitle)) = 1
    /\ \A n \in 2..Len(Doc) : Len(SelectSeq(Doc[n], IsTitle)) = 0
    /\ SelectSeq(Doc[1], IsTitle)[1].text = StripExtension(upload.name)

\* a document on which a footer has been stamped
HasFooter(doc) == \E p \in 1..Len(doc) : Len(SelectSeq(doc[p], IsFooter)) > 0

\* C11: two-pass footer numbering.  A step that changes the number of pages
\* of the document is taken with no footer on any page, before the step and
\* after it: every page is added before the first footer is stamped.
TwoPassFooters ==
  [][Len(pages') # Len(pages) => ~HasFooter(pages) /\ ~HasFooter(pages')]_vars
\* the footer loop at work on a document of several pages
TwoPassFootersWitness ==
  /\ pc = "footer"
  /\ Len(pages) >= 2
  /\ i >= 1
  /\ HasFooter(pages)

\* the wrapped lines of the paragraphs ps that are not blank, paragraph by
\* paragraph in the order of ps
RECURSIVE LinesInOrder(_)
LinesInOrder(ps) ==
  IF Len(ps) = 0 THEN <<>>
  ELSE LET p == Head(ps)
       IN (IF trim(p) = <<>> THEN <<>>
           ELSE WrapLines(p, FontOf(HeadingTest(p)), SizeOf(HeadingTest(p))))
          \o LinesInOrder(Tail(ps))
\* the body runs of a page lie one under the other in the order drawn
TopDown(page) ==
  \A k \in 1..(Len(BodyRuns(page)) - 1) : BodyRuns(page)[k].y > BodyRuns(page)[k + 1].y

\* C12: paragraph contiguity.  In the finished document the body lines of
\* each page lie strictly one under the other, and read page by page and top
\* down they are the lines of the first non-blank paragraph, then those of
\* the second, and so on in input order: the lines of a paragraph are
\* consecutive, across page boundaries too, and no line of another paragraph
\* lies between them.
ParagraphContiguity ==
  Finished =>
    /\ \A p \in 1..Len(Doc) : TopDown(Doc[p])
    /\ [k \in 1..Len(BodyLines(Doc)) |-> BodyLines(Doc)[k].text]
         = LinesInOrder(paragraphs)
\* a first paragraph that runs over from the second page to the third, and a
\* second paragraph behind it
ParagraphContiguityWitness ==
  /\ Finished
  /\ Len(paragraphs) = 2
  /\ Len(Doc) = 3
  /\ Len(BodyRuns(Doc[2])) > 0
  /\ Len(BodyRuns(Doc[3])) > Len(WrapLines(paragraphs[2], "regularFont", BodySize))
  /\ trim(paragraphs[2]) # <<>>

\* C17: no empty line.  Every line the word-wrap loop hands to the draw loop
\* holds at least one word, so the paragraph takes one line pitch per line
\* that bears words.
NoEmptyLine ==
  pc \in {"check", "draw"} => \A k \in 1..Len(lines) : WordsOf(lines[k]) # <<>>

\* C18: greedy maximality.  When a paragraph has been wrapped, of two
\* consecutive lines of it the first, a space and the first word of the
\* second are together wider than the usable width, and the words of the
\* lines, line after line, are the words of the paragraph: no word is split
\* between two lines.
GreedyMaximality ==
  pc = "check" =>
    /\ \A k \in 1..(Len(lines) - 1) :
         widthOfTextAtSize(lines[k] \o <<" ">> \o WordsOf(lines[k + 1])[1],
                           FontOf(isHeading), SizeOf(isHeading)) > maxWidth * 10000
    /\ ConcatAll([k \in 1..Len(lines) |-> WordsOf(lines[k])])
         = WordsOf(paragraphs[pi])
\* a paragraph wrapped to several lines the first of which took two words
GreedyMaximalityWitness ==
  /\ pc = "check"
  /\ Len(lines) >= 2
  /\ Len(WordsOf(lines[1])) >= 2

\* the body lines of a document in reading order, each with its page
Placed(doc) ==
  ConcatAll([p \in 1..Len(doc) |->
               [k \in 1..Len(BodyRuns(doc[p])) |->
                  [page |-> p, y |-> BodyRuns(doc[p])[k].y,
                   text |-> BodyRuns(doc[p])[k].text]]])
\* the lines of the current paragraph drawn so far
PlacedOfParagraph ==
  SubSeq(Placed(pages), Len(Placed(pages)) - (li - 1) + 1, Len(Placed(pages)))

\* C19: fixed line pitch.  Two lines of the paragraph being drawn that follow
\* each other on the same page lie fontSize * 1.5 = 18 points apart, in a
\* heading as in body text.
FixedLinePitch ==
  pc = "draw" =>
    LET placed == PlacedOfParagraph
    IN \A k \in 1..(Len(placed) - 1) :
         placed[k].page = placed[k + 1].page =>
           placed[k].y - placed[k + 1].y = (fontSize * 3) \div 2
\* a heading of which two lines stand on one page
FixedLinePitchWitness ==
  /\ pc = "draw"
  /\ isHeading
  /\ li >= 3
  /\ LET placed == PlacedOfParagraph
     IN placed[1].page = placed[2].page /\ placed[1].text # <<>>

\* C20: paragraph gap.  The step that ends a paragraph leaves the pages as
\* they are, and when the first line of a paragraph is drawn on the page that
\* holds the last line of the paragraph before it, the two lie
\* lineHeight + fontSize = 30 points apart.
ParagraphGap ==
  [][/\ (pc = "draw" /\ pc' = "paragraph") =>
          (pages' = pages /\ currentPage' = currentPage)
     /\ (pc = "draw" /\ li = 1 /\ li' = 2) =>
          LET placed == Placed(pages')
              n == Len(placed)
          IN (n >= 2 /\ placed[n - 1].page = placed[n].page) =>
               placed[n - 1].y - placed[n].y = (fontSize * 3) \div 2 + fontSize]_vars
\* the first line of a second paragraph drawn under the last line of the
\* first, on the same page
ParagraphGapWitness ==
  /\ pc = "draw"
  /\ li = 2
  /\ pi = 2
  /\ LET placed == Placed(pages)
         n == Len(placed)
     IN n >= 2 /\ placed[n - 1].page = placed[n].page /\ placed[n].y < placed[n - 1].y

\* the two requests
Requests == {ThisRequest, parked}
ExtensionOf(r) == toLowerCase(LastPiece(r.upload.name, {"."}))
InputPathOf(r) == tempDir \o <<"/">> \o r.fileId \o <<".">> \o ExtensionOf(r)
OutputPathOf(r) == tempDir \o <<"/">> \o r.fileId \o <<".", "p", "d", "f">>
\* a text conversion of request r that ran to its end
FinishedText(r) ==
  r.pc = "responded" /\ r.response.status = 200 /\ ExtensionOf(r) \in TextExtensions

\* C14: independence of concurrent conversions.  Two requests in flight have
\* different ids, so different input and output paths; a request that
\* converted a text read the text of its own upload, and the document under
\* its output path is its own page list, with its own id as the title and
\* the wrapped lines of its own text, in order, as the body: what it
\* produces when it runs alone.
IndependentConversions ==
  /\ (fileId # <<>> /\ parked.fileId # <<>>) => fileId # parked.fileId
  /\ \A r \in Requests :
       FinishedText(r) =>
         /\ r.textContent = r.upload.content
         /\ files[InputPathOf(r)] = r.upload.content
         /\ files[OutputPathOf(r)] = r.pages
         /\ SelectSeq(r.pages[1], IsTitle)[1].text = r.fileId
         /\ [k \in 1..Len(BodyLines(r.pages)) |-> BodyLines(r.pages)[k].text]
              = LinesInOrder(SplitParagraphs(r.upload.content))
\* a text conversion has answered with a document of several pages while the
\* other request, accepted before that, has laid out a different text and
\* waits to save it
IndependentConversionsWitness ==
  /\ FinishedText(ThisRequest)
  /\ Len(pages) >= 2
  /\ parked.pc = "footer"
  /\ parked.i >= parked.pageCount
  /\ parked.pageCount >= 1
  /\ parked.upload.content # upload.content

\* the pages of the files of a list, file after file
RECURSIVE PagesOf(_)
PagesOf(fs) == IF Len(fs) = 0 THEN <<>> ELSE Head(fs).pages \o PagesOf(Tail(fs))

\* C16: export with uploaded PDFs.  While the list of uploaded PDFs is not
\* empty, every file an export made the browser download holds the pages of
\* the generated document followed by the pages of each uploaded file, in
\* the order of the list.
ExportCombinesUploads ==
  uploadedFiles # <<>> =>
    \A k \in 1..Len(downloads) :
      downloads[k].pages = GeneratedPdf(content) \o PagesOf(uploadedFiles)

\* C21: start positions.  In the finished document the title lies at
\* y = height - margin - titleFontSize = 724, the first body line of page 1,
\* when it has one, at 724 - 18 * 1.5 = 697, and the first body line of every
\* later page that has one at height - margin - fontSize = 730.
StartPositions ==
  Finished =>
    /\ SelectSeq(Doc[1], IsTitle)[1].y = 724
    /\ BodyRuns(Doc[1]) # <<>> => BodyRuns(Doc[1])[1].y = 697
    /\ \A p \in 2..Len(Doc) : BodyRuns(Doc[p]) # <<>> => BodyRuns(Doc[p])[1].y = 730

\* C22: blank paragraphs are dropped without effect.  The step taken at a
\* paragraph that is empty after trimming goes on to the next paragraph and
\* leaves the pages, the current page and the cursor as they are: no line, no
\* paragraph gap, no page.
BlankParagraphDropped ==
  [][(pc = "paragraph" /\ pi <= Len(paragraphs) /\ trim(paragraphs[pi]) = <<>>) =>
       /\ pi' = pi + 1
       /\ pc' = "paragraph"
       /\ pages' = pages
       /\ currentPage' = currentPage
       /\ y' = y]_vars
\* a blank first paragraph has been passed and a paragraph with words follows
BlankParagraphDroppedWitness ==
  /\ pc = "paragraph"
  /\ pi = 2
  /\ Len(paragraphs) >= 2
  /\ trim(paragraphs[1]) = <<>>
  /\ trim(paragraphs[2]) # <<>>
  /\ y = 697

\* C23: the heading classification does not depend on surrounding
\* whitespace.  The paragraph being laid out and the same paragraph without
\* its leading and trailing whitespace get the same isHeading value.
HeadingIgnoresWhitespace ==
  pc = "check" => isHeading = HeadingTest(trim(paragraphs[pi]))

\* the paragraphs that are not blank
NonEmptyParagraphs == {k \in 1..Len(paragraphs) : trim(paragraphs[k]) # <<>>}

\* the steps a request can still take are fewer than this: the footers to
\* stamp, the lines to draw and the paragraphs to go through, and the steps
\* before them, counted generously from the length of the upload
StepsLeft ==
  LET size == Len(upload.content)
      perParagraph == size + 4
      footers == 3 * size + 5
  IN CASE pc = "responded" -> 0
       [] pc \in {"image", "placeholder"} -> 1
       [] pc = "footer" -> 1 + (pageCount - i)
       [] pc = "paragraph" -> footers + (Len(paragraphs) - pi + 1) * perParagraph
       [] pc = "check" -> footers + (Len(paragraphs) - pi + 1) * perParagraph - 1
       [] pc = "draw" -> footers + (Len(paragraphs) - pi + 1) * perParagraph - 1 - li
       [] pc = "text" -> footers + (size + 2) * perParagraph + 1
       [] pc = "request" -> footers + (size + 2) * perParagraph + 2

\* C24: termination and page bound.  Every step of a request brings it
\* nearer to its answer (the number of steps left, never negative, goes
\* down), so the layout pass ends; and the document of a finished text
\* conversion has at most
\* 1 + (number of non-empty paragraphs) + (number of lines placed) pages.
TerminatesWithinPageBound ==
  [][/\ StepsLeft' < StepsLeft
     /\ StepsLeft' >= 0
     /\ Finished' =>
          Len(Doc') <= 1 + Cardinality(NonEmptyParagraphs') + Len(BodyLines(Doc'))]_vars
\* a finished text conversion that added pages before a paragraph and after
\* a line
TerminatesWithinPageBoundWitness ==
  /\ Finished
  /\ Len(Doc) >= 3
  /\ Cardinality(NonEmptyParagraphs) >= 2

\* C25: at most one export is in progress.  While a call of handleExportPDF
\* has not finished, exportStatus is 'preparing' (the Export PDF button is
\* disabled), and no second call is in progress.
OneExportAtATime ==
  /\ saving # <<>> => exportStatus = "preparing"
  /\ Len(saving) <= 1

\* C26: while isConverting is true the conversionStatus is 'converting' and
\* conversionProgress is where the running conversion put it, and
\* isConverting is true exactly while a call of handleConvert has not
\* finished.
ConvertingIsUndisturbed ==
  /\ isConverting <=> running # NoConversion
  /\ isConverting =>
       /\ conversionStatus = "converting"
       /\ conversionProgress = ProgressSteps(running.file)[running.stage]

\* C27: success only after the merge.  When combinationStatus becomes
\* 'success', the call of mockCombinePDFs that handleCombine made has
\* settled without failing: no merge is still running, and the merged PDF
\* has been handed to the browser in that attempt.
SuccessOnlyAfterMerge ==
  [][(combinationStatus' = "success" /\ combinationStatus # "success") =>
       /\ merges' = <<>>
       /\ Len(mergedDownloads') > Len(mergedDownloads)]_vars

\* C28: a failed or refused AI formatting keeps the content.  A step in
\* which formatWithAi refuses the text, or in which the request to the AI
\* route fails, leaves content as it was and leaves isFormatting false.
FailedFormatKeepsContent ==
  [][((HandleAiFormat /\ Refused(extractTextFromSlateNodes(content))) \/ AiFails) =>
       (content' = content /\ ~isFormatting')]_vars

\* C29: the upload list.  After every upload and every removal
\* uploadedFiles holds at most 10 files, each of type application/pdf and
\* of at most 5MB; a step that shortens the list takes out the entry at
\* one index and keeps the others in their order.
UploadListInvariant ==
  [][/\ Len(uploadedFiles') <= 10
     /\ \A k \in 1..Len(uploadedFiles') :
          /\ uploadedFiles'[k].type = PdfType
          /\ uploadedFiles'[k].size <= 5 * 1024 * 1024
     /\ Len(uploadedFiles') < Len(uploadedFiles) =>
          \E index \in 1..Len(uploadedFiles) :
            /\ Len(uploadedFiles') = Len(uploadedFiles) - 1
            /\ \A k \in 1..(index - 1) : uploadedFiles'[k] = uploadedFiles[k]
            /\ \A k \in index..Len(uploadedFiles') :
                 uploadedFiles'[k] = uploadedFiles[k + 1]]_vars
\* the list is full, a file of exactly 5MB is in it, and the last drop held
\* a file that was turned away
UploadListInvariantWitness ==
  /\ Len(uploadedFiles) = 10
  /\ \E k \in 1..10 : uploadedFiles[k].size = 5 * 1024 * 1024
  /\ zoneError # <<>>

\* C30: the download serves only conversions.  A GET is answered with 200
\* and bytes only when POST has answered 200 with the fileId the GET names
\* and the bytes are those of that conversion's output <fileId>.pdf in the
\* temp directory; otherwise it is answered with 400 (no fileId) or 404.
DownloadServesOnlyConversions ==
  download # NoDownload =>
    IF download.status = 200
    THEN /\ pc = "responded"
         /\ response = [status |-> 200, fileId |-> download.fileId]
         /\ download.body =
              files[tempDir \o <<"/">> \o download.fileId \o <<".", "p", "d", "f">>]
    ELSE \/ download.status = 400 /\ download.fileId = <<>>
         \/ download.status = 404 /\ download.fileId # <<>>
====
